---- MODULE Spec2Model ----
(***************************************************************************)
(* A model of package retry (bursavich.dev/retry): the retry loop Do, the  *)
(* permanent-error marker and the policies it consults.                    *)
(*                                                                         *)
(* One call of Do is modelled, step by step, together with its environment:*)
(* the monotonic clock, the context's cancellation signal and the runtime  *)
(* that fires the timer.  Durations and instants are integers (ticks).     *)
(***************************************************************************)
EXTENDS Integers, Sequences, FiniteSets, TLC

\* ------------------------------------------------------------------ bounds
MaxTime == 2      \* the clock runs from 0 to MaxTime
MaxCalls == 3     \* fn is invoked at most MaxCalls times in one call of Do
MaxBackoff == 2   \* constant backoffs are drawn from 0..MaxBackoff
MaxLimit == 2     \* retry and elapsed limits are drawn from 0..MaxLimit
MaxWrap == 1      \* an error returned by fn carries at most MaxWrap wrappers
StackLimit == 2   \* nested calls of one Next the runtime's stack can hold
DurationBits == 10 \* width of a time.Duration (two's complement)
MaxAttempt == 14  \* an exponential policy is asked for attempts 1..MaxAttempt
RandDen == 4      \* rand.Float64() returns one of 0/RandDen .. (RandDen-1)/RandDen
NumProcs == 2     \* Do calls that run concurrently and share one policy
MaxShared == 2    \* fn is invoked at most MaxShared times by each of them
MaxSharedTime == 1 \* while they run the clock goes from 0 to MaxSharedTime

\* ------------------------------------------------------- default values
\* One tick is 50ms; a factor is a pair <<numerator, denominator>>.
DefaultMinBackoff == 3
DefaultMaxBackoff == 300
DefaultGrowthFactor == <<3, 2>>
DefaultJitterFactor == <<1, 2>>

VARIABLES
    pc,          \* position of Do: begin, call, consult, deadline, arm, wait, done, fatal
    clock,       \* the monotonic clock behind time.Now()
    ctxDone,     \* ctx.Done() is closed
    hasDeadline, \* ctx.Deadline() reports a deadline
    deadline,    \* that deadline
    policy,      \* the policy handed to Do
    start,       \* Do's local start
    retry,       \* Do's loop counter
    err,         \* Do's local err: the value of the most recent fn()
    next,        \* Do's local next: the backoff the policy proposed
    ok,          \* Do's local ok: the policy allows a retry
    fault,       \* "none", or the runtime fault that ended the process
    arch,        \* the platform of the build: it decides float conversions
    src,         \* the random source: number of values drawn from it so far
    drawn,       \* the values the most recent policy.Next call drew, in order
    timer,       \* Do's local t: the *time.Timer (nil until created)
    tC,          \* number of values buffered in t.C (capacity 1)
    ret,         \* the value Do returned (meaningful when pc = "done")
    calls,       \* number of invocations of fn so far
    results,     \* the values fn returned, in order
    consults,    \* the arguments of every policy.Next call Do made, in order
    doneAtWait,  \* whether ctx was done when the wait at hand began
    procs,       \* the locals of every one of several concurrent Do calls
    mu,          \* lockedSource.mu: 0 when unlocked, else the holder
    seeding      \* where a call of lockedSource.Seed stands

vars == <<pc, clock, ctxDone, hasDeadline, deadline, policy, start, retry, err,
          next, ok, fault, arch, src, drawn, timer, tC, ret, calls, results,
          consults, doneAtWait, procs, mu, seeding>>

\* ------------------------------------------------------------------ errors
\* An error value is the invocation that produced it and its chain of layers,
\* outermost first: "wrap" is a fmt.Errorf("%w") style wrapper, "perm" is a
\* *permanentError.  The chain ends in a plain error.
NilErr == [id |-> 0, chain |-> <<>>]

Layers == {"wrap", "perm"}

RECURSIVE SeqsUpTo(_, _)
SeqsUpTo(S, n) ==
    IF n = 0 THEN {<<>>}
    ELSE LET shorter == SeqsUpTo(S, n - 1)
         IN shorter \cup {<<x>> \o s : x \in S, s \in {t \in shorter : Len(t) = n - 1}}

\* errors.Is(err, permErr): some layer of the chain is a *permanentError, whose
\* Is method answers true for permErr.
isPermErr_noUnwrap(e) == e.chain # <<>> /\ e.chain[1] = "perm"
isPermErr(e) == \E i \in 1..Len(e.chain) : e.chain[i] = "perm"

\* NewPermanentError(err): nil and already permanent errors are returned
\* unchanged, anything else gets a permanentError layer around it.
NewPermanentError_alwaysWrap(e) ==
    IF e = NilErr THEN e ELSE [e EXCEPT !.chain = <<"perm">> \o @]

NewPermanentError(e) ==
    IF e = NilErr \/ isPermErr(e) THEN e
    ELSE [e EXCEPT !.chain = <<"perm">> \o @]

\* the chains fn can build: wrappers and NewPermanentError applied to a plain
\* error, so at most one "perm" layer, anywhere among the wrappers
ErrChains ==
    {c \in SeqsUpTo(Layers, MaxWrap + 1) :
        /\ Cardinality({i \in 1..Len(c) : c[i] = "perm"}) <= 1
        /\ Cardinality({i \in 1..Len(c) : c[i] = "wrap"}) <= MaxWrap}

\* what the k-th invocation of fn may return
FnResults(k) == {NilErr} \cup {[id |-> k, chain |-> c] : c \in ErrChains}

\* ---------------------------------------------------------------- policies
\* A policy is the chain of its layers, root first; the parent of a decorator
\* is the rest of the chain and <<>> is a nil Policy.
ConstantBackoff(backoff) == <<[kind |-> "constantBackoff", backoff |-> backoff, limit |-> 0]>>
WithMaxRetries(parent, limit) == <<[kind |-> "maxRetries", backoff |-> 0, limit |-> limit]>> \o parent
WithMaxElapsedDuration(parent, limit) == <<[kind |-> "maxElapsed", backoff |-> 0, limit |-> limit]>> \o parent
Never == WithMaxRetries(<<>>, 0)
Immediately == ConstantBackoff(0)

\* ExponentialBackoff(min, max, factor), with its defaults for values out of
\* range
ExponentialBackoff(min, max, factor) ==
    <<[kind |-> "exponentialBackoff",
       min |-> IF min <= 0 THEN DefaultMinBackoff ELSE min,
       max |-> IF max <= 0 THEN DefaultMaxBackoff ELSE max,
       factor |-> IF factor[1] <= factor[2] THEN DefaultGrowthFactor ELSE factor]>>
DefaultExponentialBackoff ==
    ExponentialBackoff(DefaultMinBackoff, DefaultMaxBackoff, DefaultGrowthFactor)

\* WithRandomJitter(parent, rand, factor), with its default for a factor
\* outside (0, 1]
WithRandomJitter(parent, factor) ==
    <<[kind |-> "withRandomJitter",
       factor |-> IF factor[1] <= 0 \/ factor[1] > factor[2]
                  THEN DefaultJitterFactor ELSE factor]>> \o parent
WithDefaultRandomJitter(parent) == WithRandomJitter(parent, DefaultJitterFactor)
DefaultBackoff == WithDefaultRandomJitter(DefaultExponentialBackoff)

\* the outcome of a Next call: a decision (d, ok), or a fault of the runtime;
\* draws counts the values the call took from the random source
Decision(d, allow) == [d |-> d, ok |-> allow, fault |-> "none", draws |-> 0]
Fault(what) == [d |-> 0, ok |-> FALSE, fault |-> what, draws |-> 0]

\* ------------------------------------------------------------ durations
\* time.Duration is a signed integer of DurationBits bits.
MaxDuration == 2 ^ (DurationBits - 1) - 1
MinDuration == 0 - 2 ^ (DurationBits - 1)

\* the platforms: a float out of the integer's range converts to the
\* smallest integer on amd64 and saturates on arm64
Archs == {"amd64", "arm64"}

\* the quotient rounded toward zero, for den > 0
TruncDiv(num, den) ==
    IF num >= 0 THEN num \div den ELSE 0 - ((0 - num) \div den)

\* time.Duration(f) for the float f = num / den: the value truncated when it
\* fits, and what the platform makes of it when it does not
FloatToDuration(num, den) ==
    LET t == TruncDiv(num, den) IN
    IF MinDuration <= t /\ t <= MaxDuration THEN t
    ELSE IF arch = "amd64" THEN MinDuration
    ELSE IF t > 0 THEN MaxDuration ELSE MinDuration

constantBackoffNext(p) == Decision(p.backoff, TRUE)

\* exponentialBackoff.Next: growthFactor := math.Pow(p.factor, attempt-1);
\* backoff := time.Duration(growthFactor * float64(p.min)); capped at p.max
exponentialBackoffNext(p, attempt) ==
    LET backoff == FloatToDuration(p.factor[1] ^ (attempt - 1) * p.min,
                                   p.factor[2] ^ (attempt - 1))
    IN Decision(IF backoff > p.max THEN p.max ELSE backoff, TRUE)

\* withRandomJitter.Next, given the parent's decision and the value r that
\* p.rand.Float64() returns if it is called:
\* time.Duration(float64(b) * (1 + j*(2*r - 1)))
withRandomJitterNext_drawFirst(p, parent, r) ==
    IF ~parent.ok THEN [Decision(0, FALSE) EXCEPT !.draws = 1]
    ELSE LET j == p.factor
             num == parent.d * (j[2] * r[2] + j[1] * (2 * r[1] - r[2]))
             den == j[2] * r[2]
         IN [Decision(FloatToDuration(num, den), TRUE) EXCEPT !.draws = 1]

withRandomJitterNext(p, parent, r) ==
    IF ~parent.ok THEN Decision(0, FALSE)
    ELSE LET j == p.factor
             num == parent.d * (j[2] * r[2] + j[1] * (2 * r[1] - r[2]))
             den == j[2] * r[2]
         IN [Decision(FloatToDuration(num, den), TRUE) EXCEPT !.draws = 1]

\* maxRetries.Next: over the limit it vetoes; otherwise it returns what the
\* call p.Next(start, now, attempt) returns, and p is the maxRetries itself.
\* self is the outcome of that nested call.
maxRetriesNext(p, attempt, self) ==
    IF attempt > p.limit THEN Decision(0, FALSE) ELSE self

\* maxElapsed.Next returning d, true within the limit
maxElapsedNext_allow(p, parent, start_, now) ==
    IF parent.fault # "none" THEN parent
    ELSE IF start_ + p.limit < now + parent.d THEN Decision(0, FALSE)
    ELSE Decision(parent.d, TRUE)

\* maxElapsed.Next, given the parent's outcome
maxElapsedNext(p, parent, start_, now) ==
    IF parent.fault # "none" THEN parent
    ELSE IF start_ + p.limit < now + parent.d THEN Decision(0, FALSE)
    ELSE Decision(parent.d, parent.ok)

\* policy.Next(err, start, now, attempt), with room for depth more frames of
\* one method on the stack.  A call on a nil Policy panics.
\* rs are the values the random source hands out, in order; a decorator's
\* outcome counts its parent's draws and its own.
RECURSIVE NextAt(_, _, _, _, _, _, _)
NextAt(p, e, start_, now, attempt, rs, depth) ==
    IF p = <<>> THEN Fault("nil dereference")
    ELSE LET h == Head(p) IN
         CASE h.kind = "constantBackoff" -> constantBackoffNext(h)
           [] h.kind = "exponentialBackoff" -> exponentialBackoffNext(h, attempt)
           [] h.kind = "maxRetries" ->
                IF depth = 0 THEN Fault("stack overflow")
                ELSE maxRetriesNext(h, attempt,
                                    NextAt(p, e, start_, now, attempt, rs, depth - 1))
           [] h.kind = "maxElapsed" ->
                LET parent == NextAt(Tail(p), e, start_, now, attempt, rs, depth)
                    own == maxElapsedNext(h, parent, start_, now)
                IN [own EXCEPT !.draws = parent.draws]
           [] h.kind = "withRandomJitter" ->
                LET parent == NextAt(Tail(p), e, start_, now, attempt, rs, depth)
                IN IF parent.fault # "none" THEN parent
                   ELSE LET own == withRandomJitterNext(h, parent, rs[parent.draws + 1])
                        IN [own EXCEPT !.draws = parent.draws + own.draws]

PolicyNext(p, e, start_, now, attempt, rs) ==
    NextAt(p, e, start_, now, attempt, rs, StackLimit)

\* the values rand.Float64() can return
RandVals == {<<k, RandDen>> : k \in 0..(RandDen - 1)}

\* what the random source may hand out to one Next call of policy p: one
\* value for every withRandomJitter layer
Jitters(p) == Cardinality({i \in 1..Len(p) : p[i].kind = "withRandomJitter"})
DrawSeqs(p) == {rs \in SeqsUpTo(RandVals, Jitters(p)) : Len(rs) = Jitters(p)}

\* the policies built by the constructors, with limits from lo upwards
Leaves == {ConstantBackoff(d) : d \in 0..MaxBackoff}
Decorated(P, lo) ==
    {WithMaxRetries(p, n) : p \in P, n \in lo..MaxLimit}
    \cup {WithMaxElapsedDuration(p, l) : p \in P, l \in lo..MaxLimit}
Policies == Leaves \cup Decorated(Leaves, 0) \cup {Never}

\* ------------------------------------------------------------------- timer
NoTimer == [created |-> FALSE, active |-> FALSE, when |-> 0]

\* time.NewTimer(d) and t.Reset(d): the timer will fire once d has passed
NewTimer(d, now) == [created |-> TRUE, active |-> TRUE, when |-> now + d]
\* t.Stop()
Stop(t) == [t EXCEPT !.active = FALSE]

\* ---------------------------------------------------------------------- Do
Init ==
    /\ pc = "begin"
    /\ clock = 0
    /\ ctxDone = FALSE
    /\ hasDeadline \in BOOLEAN
    /\ deadline \in (IF hasDeadline THEN 0..MaxTime ELSE {0})
    /\ policy \in Policies
    /\ start = 0
    /\ retry = 0
    /\ err = NilErr
    /\ next = 0
    /\ ok = FALSE
    /\ fault = "none"
    /\ arch = "amd64"
    /\ src = 0
    /\ drawn = <<>>
    /\ timer = NoTimer
    /\ tC = 0
    /\ doneAtWait = FALSE
    /\ procs = <<>> /\ mu = 0 /\ seeding = "idle"
    /\ ret = NilErr
    /\ calls = 0
    /\ results = <<>>
    /\ consults = <<>>

\* return v
Return(v) == pc' = "done" /\ ret' = v

\* the errors of package context
Canceled == [id |-> 0, chain |-> <<"context canceled">>]
DeadlineExceeded == [id |-> 0, chain |-> <<"context deadline exceeded">>]

\* Begin with attempts counted from 0
Begin_retryFromZero ==
    /\ pc = "begin"
    /\ start' = clock
    /\ retry' = 0
    /\ pc' = "call"
    /\ UNCHANGED <<clock, ctxDone, hasDeadline, doneAtWait, procs, mu, seeding, arch, deadline, policy, err, next, ok, fault, src, drawn,
                   timer, tC, ret, calls, results, consults>>

\* var t *time.Timer; start := time.Now(); deadline, hasDeadline := ctx.Deadline();
\* retry := 1
Begin ==
    /\ pc = "begin"
    /\ start' = clock
    /\ retry' = 1
    /\ pc' = "call"
    /\ UNCHANGED <<clock, ctxDone, hasDeadline, doneAtWait, procs, mu, seeding, arch, deadline, policy, err, next, ok, fault, src, drawn,
                   timer, tC, ret, calls, results, consults>>

\* the value Do returns for an fn result that ends the loop at once
AtOnceValue_inner(e) ==
    IF isPermErr(e)
    THEN LET i == CHOOSE j \in 1..Len(e.chain) : e.chain[j] = "perm"
         IN [e EXCEPT !.chain = SubSeq(@, i + 1, Len(@))]
    ELSE e
AtOnceValue(e) == e

\* the test that ends the loop right after fn returned
StopsAtOnce_permOnly(e) == isPermErr(e)
StopsAtOnce(e) == e = NilErr \/ isPermErr(e)

\* err := fn(); if err == nil || isPermErr(err) { return err }
CallFn ==
    /\ pc = "call"
    /\ calls < MaxCalls
    /\ \E e \in FnResults(calls + 1) :
        /\ err' = e
        /\ results' = Append(results, e)
        /\ IF StopsAtOnce(e) THEN Return(AtOnceValue(e))
           ELSE pc' = "consult" /\ ret' = ret
    /\ calls' = calls + 1
    /\ UNCHANGED <<clock, ctxDone, hasDeadline, doneAtWait, procs, mu, seeding, arch, deadline, policy, start, retry,
                   next, ok, fault, src, drawn, timer, tC, consults>>

\* now := time.Now(); next, ok := policy.Next(err, start, now, retry);
\* if !ok { return err }.  A fault inside Next ends the process.
Consult ==
    /\ pc = "consult"
    /\ \E rs \in DrawSeqs(policy) :
       LET r == PolicyNext(policy, err, start, clock, retry, rs) IN
        /\ consults' = Append(consults, [start |-> start, now |-> clock, attempt |-> retry])
        /\ next' = r.d /\ ok' = r.ok /\ fault' = r.fault
        /\ src' = src + r.draws /\ drawn' = SubSeq(rs, 1, r.draws)
        /\ IF r.fault # "none" THEN pc' = "fatal" /\ ret' = ret
           ELSE IF ~r.ok THEN Return(err)
           ELSE pc' = "deadline" /\ ret' = ret
    /\ UNCHANGED <<clock, ctxDone, hasDeadline, doneAtWait, procs, mu, seeding, arch, deadline, policy, start, retry,
                   err, timer, tC, calls, results>>

\* hasDeadline && deadline.Before(time.Now().Add(next))
deadlineOverrun_nowOnly(now) == hasDeadline /\ deadline < now
deadlineOverrun(now) == hasDeadline /\ deadline < now + next

\* DeadlineCheck returning context.DeadlineExceeded
DeadlineCheck_deadlineExceeded ==
    /\ pc = "deadline"
    /\ IF deadlineOverrun(clock) THEN Return(DeadlineExceeded) ELSE pc' = "arm" /\ ret' = ret
    /\ UNCHANGED <<clock, ctxDone, hasDeadline, doneAtWait, procs, mu, seeding, arch, deadline, policy, start, retry,
                   err, next, ok, fault, src, drawn, timer, tC, calls, results, consults>>

\* if hasDeadline && deadline.Before(time.Now().Add(next)) { return err }
DeadlineCheck ==
    /\ pc = "deadline"
    /\ IF deadlineOverrun(clock) THEN Return(err) ELSE pc' = "arm" /\ ret' = ret
    /\ UNCHANGED <<clock, ctxDone, hasDeadline, doneAtWait, procs, mu, seeding, arch, deadline, policy, start, retry,
                   err, next, ok, fault, src, drawn, timer, tC, calls, results, consults>>

\* resetTimer(t, d) with a blocking receive: if !t.Stop() { <-t.C }; t.Reset(d)
resetTimer_blockingReceive ==
    /\ timer.active \/ tC > 0
    /\ timer' = NewTimer(next, clock)
    /\ tC' = 0

\* resetTimer(t, d): t.Stop(); a non-blocking receive from t.C; t.Reset(d)
resetTimer ==
    /\ timer' = NewTimer(next, clock)
    /\ tC' = 0

\* if t == nil { t = time.NewTimer(next) } else { resetTimer(t, next) }
ArmTimer ==
    /\ pc = "arm"
    /\ IF ~timer.created THEN timer' = NewTimer(next, clock) /\ tC' = tC
       ELSE resetTimer
    /\ pc' = "wait"
    /\ doneAtWait' = ctxDone
    /\ UNCHANGED <<clock, ctxDone, hasDeadline, procs, mu, seeding, arch, deadline, policy, start, retry,
                   err, next, ok, fault, src, drawn, ret, calls, results, consults>>

\* WaitDone returning ctx.Err()
WaitDone_ctxErr ==
    /\ pc = "wait"
    /\ ctxDone
    /\ timer' = Stop(timer)
    /\ Return(Canceled)
    /\ UNCHANGED <<clock, ctxDone, hasDeadline, doneAtWait, procs, mu, seeding, arch, deadline, policy, start, retry,
                   err, next, ok, fault, src, drawn, tC, calls, results, consults>>

\* WaitDone without t.Stop()
WaitDone_noStop ==
    /\ pc = "wait"
    /\ ctxDone
    /\ Return(err)
    /\ UNCHANGED <<clock, ctxDone, hasDeadline, doneAtWait, procs, mu, seeding, arch, deadline, policy, start, retry,
                   err, next, ok, fault, src, drawn, timer, tC, calls, results, consults>>

\* select { case <-ctx.Done(): t.Stop(); return err }
WaitDone ==
    /\ pc = "wait"
    /\ ctxDone
    /\ timer' = Stop(timer)
    /\ Return(err)
    /\ UNCHANGED <<clock, ctxDone, hasDeadline, doneAtWait, procs, mu, seeding, arch, deadline, policy, start, retry,
                   err, next, ok, fault, src, drawn, tC, calls, results, consults>>

\* a wait that goes on without a fire: select { case <-t.C: default: }
WaitTimer_noReceive ==
    /\ pc = "wait"
    /\ tC' = 0
    /\ retry' = retry + 1
    /\ pc' = "call"
    /\ UNCHANGED <<clock, ctxDone, hasDeadline, doneAtWait, procs, mu, seeding, arch, deadline, policy, start, err,
                   next, ok, fault, src, drawn, timer, ret, calls, results, consults>>

\* select { case <-t.C: }; retry++
WaitTimer ==
    /\ pc = "wait"
    /\ tC > 0
    /\ tC' = tC - 1
    /\ retry' = retry + 1
    /\ pc' = "call"
    /\ UNCHANGED <<clock, ctxDone, hasDeadline, doneAtWait, procs, mu, seeding, arch, deadline, policy, start, err,
                   next, ok, fault, src, drawn, timer, ret, calls, results, consults>>

\* ------------------------------------------------------------- environment
\* time passes
Tick ==
    /\ clock < MaxTime
    /\ clock' = clock + 1
    /\ UNCHANGED <<pc, ctxDone, hasDeadline, doneAtWait, procs, mu, seeding, arch, deadline, policy, start, retry, err,
                   next, ok, fault, src, drawn, timer, tC, ret, calls, results, consults>>

\* the context is cancelled (by its cancel function or by its deadline) while
\* Do runs
Cancel ==
    /\ pc \notin {"done", "fatal"}
    /\ ~ctxDone
    /\ ctxDone' = TRUE
    /\ UNCHANGED <<pc, clock, hasDeadline, doneAtWait, procs, mu, seeding, arch, deadline, policy, start, retry, err,
                   next, ok, fault, src, drawn, timer, tC, ret, calls, results, consults>>

\* the runtime fires the timer: one value is sent to t.C unless one is buffered
TimerFire ==
    /\ timer.active
    /\ clock >= timer.when
    /\ timer' = [timer EXCEPT !.active = FALSE]
    /\ tC' = 1
    /\ UNCHANGED <<pc, clock, ctxDone, hasDeadline, doneAtWait, procs, mu, seeding, arch, deadline, policy, start, retry,
                   err, next, ok, fault, src, drawn, ret, calls, results, consults>>

Next ==
    \/ Begin
    \/ CallFn
    \/ Consult
    \/ DeadlineCheck
    \/ ArmTimer
    \/ WaitDone
    \/ WaitTimer
    \/ Tick
    \/ Cancel
    \/ TimerFire

Spec == Init /\ [][Next]_vars

\* ------------------------------------------------------- Do, scheduled
\* The steps of Do itself.
DoStep ==
    \/ Begin
    \/ CallFn
    \/ Consult
    \/ DeadlineCheck
    \/ ArmTimer
    \/ WaitDone
    \/ WaitTimer

\* Do called with a zero backoff and a context without a deadline
InitImmediate ==
    /\ Init
    /\ ~hasDeadline
    /\ policy \in {Immediately} \cup {WithMaxRetries(Immediately, n) : n \in 0..MaxLimit}

\* The goroutine running Do is scheduled and fn returns whenever it is
\* called; the runtime fires a timer that is due.
FairSpec ==
    /\ InitImmediate
    /\ [][Next]_vars
    /\ WF_vars(DoStep)
    /\ WF_vars(TimerFire)

\* ----------------------------------------------- one call of policy.Next
\* exponential policies, built from arguments in and out of range
ExpLeaves ==
    {ExponentialBackoff(mn, mx, f) :
        mn \in {0, 1, 4}, mx \in {0, 8, MaxDuration}, f \in {<<1, 1>>, <<3, 2>>, <<2, 1>>}}

\* jittered policies, built from factors in and out of range
Jittered(P) ==
    {WithRandomJitter(p, j) : p \in P, j \in {<<0, 1>>, <<1, 2>>, <<1, 1>>, <<3, 2>>}}

\* A caller other than Do: any policy of up to two decorators, negative
\* limits and backoffs included, is asked once, with any start <= now and any
\* attempt >= 1.
NextPolicies ==
    LET leaves == Leaves \cup {ConstantBackoff(0 - 1)} \cup {Never}
        one == Decorated(leaves \cup ExpLeaves, 0 - 1) \cup Jittered(leaves \cup ExpLeaves)
        two == Decorated(one \ Decorated(ExpLeaves, 0 - 1), 0 - 1)
               \cup Jittered(Decorated(leaves, 0 - 1))
    IN leaves \cup ExpLeaves \cup one \cup two \cup {DefaultBackoff}

\* the attempts a policy is asked for
Attempts(p) ==
    IF \E i \in 1..Len(p) : p[i].kind = "exponentialBackoff"
    THEN 1..MaxAttempt ELSE 1..MaxCalls

InitNext ==
    /\ pc = "next"
    /\ policy \in NextPolicies
    /\ start \in 0..MaxTime
    /\ clock \in start..MaxTime
    /\ retry \in Attempts(policy)
    /\ err = [id |-> 1, chain |-> <<>>]
    /\ ctxDone = FALSE /\ hasDeadline = FALSE /\ deadline = 0
    /\ next = 0 /\ ok = FALSE /\ fault = "none"
    /\ arch \in Archs
    /\ src = 0 /\ drawn = <<>>
    /\ timer = NoTimer /\ tC = 0
    /\ doneAtWait = FALSE /\ procs = <<>> /\ mu = 0 /\ seeding = "idle"
    /\ ret = NilErr /\ calls = 0 /\ results = <<>> /\ consults = <<>>

\* backoff, retry := policy.Next(err, start, now, attempt)
CallNext ==
    /\ pc = "next"
    /\ \E rs \in DrawSeqs(policy) :
       LET r == PolicyNext(policy, err, start, clock, retry, rs) IN
        /\ next' = r.d /\ ok' = r.ok /\ fault' = r.fault
        /\ src' = src + r.draws /\ drawn' = SubSeq(rs, 1, r.draws)
        /\ pc' = IF r.fault = "none" THEN "returned" ELSE "fatal"
    /\ UNCHANGED <<clock, ctxDone, hasDeadline, doneAtWait, procs, mu, seeding, arch, deadline, policy, start, retry,
                   err, timer, tC, ret, calls, results, consults>>

SpecNext == InitNext /\ [][CallNext]_vars

\* ------------------------------------------------- NewPermanentError alone
\* fmt.Errorf("...: %w", err): one more wrapper around err
WrapError(e) == [e EXCEPT !.chain = <<"wrap">> \o @]

\* the failures a caller can hold: nil, or a plain error under wrappers and at
\* most one permanentError (the type is unexported and NewPermanentError adds
\* no second one)
PermInputs ==
    {NilErr} \cup
    {[id |-> k, chain |-> c] : k \in 1..MaxCalls,
        c \in {c \in SeqsUpTo(Layers, MaxWrap + 2) :
                 Cardinality({i \in 1..Len(c) : c[i] = "perm"}) <= 1}}

\* the value the next operation applies to: the input, then the latest result
Operand == IF results = <<>> THEN err ELSE results[Len(results)]

InitPerm ==
    /\ pc = "perm"
    /\ err \in PermInputs
    /\ ret = NilErr /\ results = <<>>
    /\ policy = <<>> /\ start = 0 /\ clock = 0 /\ retry = 0
    /\ ctxDone = FALSE /\ hasDeadline = FALSE /\ deadline = 0
    /\ next = 0 /\ ok = FALSE /\ fault = "none"
    /\ arch = "amd64" /\ src = 0 /\ drawn = <<>>
    /\ timer = NoTimer /\ tC = 0
    /\ doneAtWait = FALSE /\ procs = <<>> /\ mu = 0 /\ seeding = "idle"
    /\ calls = 0 /\ consults = <<>>

\* ret = NewPermanentError(the value at hand)
MarkPermanent ==
    /\ pc \in {"perm", "marked", "wrapped"}
    /\ Len(results) < MaxCalls
    /\ ret' = NewPermanentError(Operand)
    /\ results' = Append(results, ret')
    /\ pc' = "marked"
    /\ UNCHANGED <<clock, ctxDone, hasDeadline, doneAtWait, procs, mu, seeding, deadline, policy, start, retry, err,
                   next, ok, fault, arch, src, drawn, timer, tC, calls, consults>>

\* ret = fmt.Errorf("%w", the value at hand)
WrapStep ==
    /\ pc \in {"perm", "marked", "wrapped"}
    /\ Len(results) < MaxCalls
    /\ Operand # NilErr
    /\ ret' = WrapError(Operand)
    /\ results' = Append(results, ret')
    /\ pc' = "wrapped"
    /\ UNCHANGED <<clock, ctxDone, hasDeadline, doneAtWait, procs, mu, seeding, deadline, policy, start, retry, err,
                   next, ok, fault, arch, src, drawn, timer, tC, calls, consults>>

SpecPerm == InitPerm /\ [][MarkPermanent \/ WrapStep]_vars

\* ------------------------------- concurrent Do calls sharing one policy
\* Every call has its own locals (Do's start, now and retry); the policy is
\* one object all of them call Next on, and a jittered policy draws from
\* globalRand, whose source is a lockedSource.  Every call waits on a timer of
\* its own, so the wait is part of the step that decides on it.
Procs == 1..NumProcs
Seeder == NumProcs + 1

\* the value the source hands out in state n: the generator is deterministic
RandAt(n) == <<n % RandDen, RandDen>>

\* the policies shared: plain, vetoing and jittered ones (the jitter at the
\* root), one with an elapsed limit and one whose Next does not return
SharedPolicies ==
    {ConstantBackoff(1),
     WithRandomJitter(ConstantBackoff(1), <<1, 2>>),
     WithRandomJitter(Never, <<1, 2>>),
     WithMaxElapsedDuration(ConstantBackoff(1), 1),
     WithDefaultRandomJitter(WithMaxRetries(ConstantBackoff(1), 1))}

InitShared ==
    /\ pc = "shared"
    /\ policy \in SharedPolicies
    /\ procs = [p \in Procs |-> [pc |-> "begin", start |-> 0, b |-> 0, retry |-> 0,
                                 calls |-> 0, n |-> 0]]
    /\ mu = 0 /\ seeding = "idle"
    /\ src = 0 /\ drawn = <<>>
    /\ clock = 0 /\ fault = "none"
    /\ err = [id |-> 1, chain |-> <<>>]
    /\ start = 0 /\ retry = 0 /\ next = 0 /\ ok = FALSE
    /\ ctxDone = FALSE /\ hasDeadline = FALSE /\ deadline = 0 /\ doneAtWait = FALSE
    /\ arch = "amd64" /\ timer = NoTimer /\ tC = 0
    /\ ret = NilErr /\ calls = 0 /\ results = <<>> /\ consults = <<>>

\* start := time.Now(); retry := 1
PBegin(p) ==
    /\ fault = "none" /\ procs[p].pc = "begin"
    /\ procs' = [procs EXCEPT ![p].pc = "call", ![p].start = clock, ![p].retry = 1]
    /\ UNCHANGED <<pc, clock, ctxDone, hasDeadline, doneAtWait, mu, seeding, arch, deadline,
                   policy, start, retry, err, next, ok, fault, src, drawn, timer, tC, ret,
                   calls, results, consults>>

\* err := fn(): nil, or a transient failure
PCallFn(p) ==
    /\ fault = "none" /\ procs[p].pc = "call"
    /\ procs[p].calls < MaxShared
    /\ \E failed \in BOOLEAN :
         procs' = [procs EXCEPT ![p].calls = @ + 1,
                                ![p].pc = IF failed THEN "consult" ELSE "done"]
    /\ UNCHANGED <<pc, clock, ctxDone, hasDeadline, doneAtWait, mu, seeding, arch, deadline,
                   policy, start, retry, err, next, ok, fault, src, drawn, timer, tC, ret,
                   calls, results, consults>>

\* the rest of withRandomJitter.Next, of the root, once the parent has allowed
\* the backoff b and r has been drawn
POutcome(p, r) ==
    withRandomJitterNext(Head(policy), Decision(procs[p].b, TRUE), r)

\* now := time.Now(); policy.Next(err, start, now, retry) up to its call of
\* p.rand.Float64(), or to its end if it makes none, and then Do's
\* if !ok { return err }, the wait and retry++; a Next that overflows the
\* stack ends the process, and every call with it
PConsult(p) ==
    /\ fault = "none" /\ procs[p].pc = "consult"
    /\ LET r == PolicyNext(policy, err, procs[p].start, clock, procs[p].retry, <<RandAt(0)>>)
           parent == PolicyNext(Tail(policy), err, procs[p].start, clock, procs[p].retry, <<>>)
       IN /\ fault' = r.fault
          /\ procs' = [procs EXCEPT
                         ![p].b = IF r.fault = "none" /\ r.draws > 0 THEN parent.d ELSE 0,
                         ![p].pc = IF r.fault # "none" THEN "fatal"
                                   ELSE IF r.draws > 0 THEN "lock"
                                   ELSE IF r.ok THEN "call" ELSE "done",
                         ![p].retry = IF r.fault = "none" /\ r.draws = 0 /\ r.ok
                                      THEN @ + 1 ELSE @]
    /\ UNCHANGED <<pc, clock, ctxDone, hasDeadline, doneAtWait, mu, seeding, arch, deadline,
                   policy, start, retry, err, next, ok, src, drawn, timer, tC, ret,
                   calls, results, consults>>

\* a Lock that does not wait for the holder
PLock_noWait(p) ==
    /\ fault = "none" /\ procs[p].pc = "lock"
    /\ mu' = p
    /\ procs' = [procs EXCEPT ![p].pc = "read"]
    /\ UNCHANGED <<pc, clock, ctxDone, hasDeadline, doneAtWait, seeding, arch, deadline,
                   policy, start, retry, err, next, ok, fault, src, drawn, timer, tC, ret,
                   calls, results, consults>>

\* lockedSource.Int63: src.mu.Lock()
PLock(p) ==
    /\ fault = "none" /\ procs[p].pc = "lock"
    /\ mu = 0
    /\ mu' = p
    /\ procs' = [procs EXCEPT ![p].pc = "read"]
    /\ UNCHANGED <<pc, clock, ctxDone, hasDeadline, doneAtWait, seeding, arch, deadline,
                   policy, start, retry, err, next, ok, fault, src, drawn, timer, tC, ret,
                   calls, results, consults>>

\* src.src.Int63(): the generator's state is read ...
PRead(p) ==
    /\ fault = "none" /\ procs[p].pc = "read"
    /\ procs' = [procs EXCEPT ![p].n = src, ![p].pc = "write"]
    /\ UNCHANGED <<pc, clock, ctxDone, hasDeadline, doneAtWait, mu, seeding, arch, deadline,
                   policy, start, retry, err, next, ok, fault, src, drawn, timer, tC, ret,
                   calls, results, consults>>

\* ... and advanced, and the value of the state read is handed out
PWrite(p) ==
    /\ fault = "none" /\ procs[p].pc = "write"
    /\ src' = procs[p].n + 1
    /\ drawn' = Append(drawn, procs[p].n)
    /\ procs' = [procs EXCEPT ![p].pc = "unlock"]
    /\ UNCHANGED <<pc, clock, ctxDone, hasDeadline, doneAtWait, mu, seeding, arch, deadline,
                   policy, start, retry, err, next, ok, fault, timer, tC, ret,
                   calls, results, consults>>

\* defer src.mu.Unlock(), the rest of Next with the value drawn, Do's
\* if !ok { return err }, the wait and retry++
PUnlock(p) ==
    /\ fault = "none" /\ procs[p].pc = "unlock"
    /\ mu' = 0
    /\ procs' = [procs EXCEPT
                   ![p].pc = IF POutcome(p, RandAt(procs[p].n)).ok THEN "call" ELSE "done",
                   ![p].retry = IF POutcome(p, RandAt(procs[p].n)).ok THEN @ + 1 ELSE @,
                   ![p].n = 0, ![p].b = 0]
    /\ UNCHANGED <<pc, clock, ctxDone, hasDeadline, doneAtWait, seeding, arch, deadline,
                   policy, start, retry, err, next, ok, fault, src, drawn, timer, tC, ret,
                   calls, results, consults>>

\* lockedSource.Seed: r.mu.Lock()
SeedLock ==
    /\ fault = "none" /\ seeding = "idle"
    /\ mu = 0
    /\ mu' = Seeder
    /\ seeding' = "locked"
    /\ UNCHANGED <<pc, clock, ctxDone, hasDeadline, doneAtWait, procs, arch, deadline,
                   policy, start, retry, err, next, ok, fault, src, drawn, timer, tC, ret,
                   calls, results, consults>>

\* r.src.Seed(seed): the generator starts over
SeedWrite ==
    /\ fault = "none" /\ seeding = "locked"
    /\ src' = 0 /\ drawn' = <<>>
    /\ seeding' = "seeded"
    /\ UNCHANGED <<pc, clock, ctxDone, hasDeadline, doneAtWait, procs, mu, arch, deadline,
                   policy, start, retry, err, next, ok, fault, timer, tC, ret,
                   calls, results, consults>>

\* defer r.mu.Unlock()
SeedUnlock ==
    /\ fault = "none" /\ seeding = "seeded"
    /\ mu' = 0
    /\ seeding' = "done"
    /\ UNCHANGED <<pc, clock, ctxDone, hasDeadline, doneAtWait, procs, arch, deadline,
                   policy, start, retry, err, next, ok, fault, src, drawn, timer, tC, ret,
                   calls, results, consults>>

\* time passes; the calls look at the clock when they begin and when they
\* consult the policy, so only then is a tick told from a later one
TickShared ==
    /\ clock < MaxSharedTime
    /\ \E p \in Procs : procs[p].pc \in {"begin", "consult"}
    /\ clock' = clock + 1
    /\ UNCHANGED <<pc, ctxDone, hasDeadline, doneAtWait, procs, mu, seeding, arch, deadline,
                   policy, start, retry, err, next, ok, fault, src, drawn, timer, tC, ret,
                   calls, results, consults>>

PStep(p) ==
    \/ PBegin(p)
    \/ PCallFn(p)
    \/ PConsult(p)
    \/ PLock(p)
    \/ PRead(p)
    \/ PWrite(p)
    \/ PUnlock(p)

NextShared ==
    \/ \E p \in Procs : PStep(p)
    \/ SeedLock
    \/ SeedWrite
    \/ SeedUnlock
    \/ TickShared

SpecShared == InitShared /\ [][NextShared]_vars

\* ------------------------------------------------------------------ claims
\* what a claim means by a permanent and by a transient failure
Permanent(e) == \E i \in 1..Len(e.chain) : e.chain[i] = "perm"
Transient(e) == e # NilErr /\ ~Permanent(e)
AllTransient == \A i \in 1..Len(results) : Transient(results[i])
Last(s) == s[Len(s)]

\* C1: with an operation that always fails transiently and a context that is
\* never cancelled and has no deadline, Do under
\* WithMaxRetries(ConstantBackoff(0), n) invokes the operation at most n+1
\* times, does not die, and returns, after exactly n+1 invocations, the
\* failure of the last one.
C1_MaxRetriesInvocations ==
    \A n \in 0..MaxLimit :
        (/\ policy = WithMaxRetries(ConstantBackoff(0), n)
         /\ ~ctxDone /\ ~hasDeadline
         /\ AllTransient)
        => /\ pc # "fatal"
           /\ calls <= n + 1
           /\ (pc = "done" => (calls = n + 1 /\ ret = Last(results)))

\* the first k invocations failed transiently and invocation k+1, if it was
\* made, succeeded
FailsThenSucceeds(k) ==
    \A i \in 1..Len(results) :
        /\ i <= k => Transient(results[i])
        /\ i = k + 1 => results[i] = NilErr

\* the part of C2 that every state satisfies
C2_Safe ==
    \A k \in 0..(MaxCalls - 1) :
        (/\ policy = ConstantBackoff(0)
         /\ ~ctxDone /\ ~hasDeadline
         /\ FailsThenSucceeds(k))
        => /\ pc # "fatal"
           /\ calls <= k + 1
           /\ (pc = "done" => (calls = k + 1 /\ ret = NilErr))

\* C2: under ConstantBackoff(0), with a context never cancelled and without a
\* deadline, an operation that fails transiently k times and then succeeds
\* is invoked at most k+1 times, and Do terminates: it returns, after
\* invocation k+1 and not before, and returns nil.
C2_FailsThenSucceeds ==
    /\ []C2_Safe
    /\ \A k \in 0..(MaxCalls - 1) :
        [](policy = ConstantBackoff(0) /\ ~ctxDone /\ FailsThenSucceeds(k))
            => <>(pc = "done" /\ calls = k + 1 /\ ret = NilErr)

\* two transient failures, then success: three invocations and nil
C2_Witness ==
    /\ policy = ConstantBackoff(0) /\ ~ctxDone /\ ~hasDeadline
    /\ pc = "done" /\ calls = 3 /\ ret = NilErr
    /\ Transient(results[1]) /\ Transient(results[2]) /\ results[3] = NilErr

\* C3: an invocation that returns a failure that is or wraps the permanent
\* marker is the last one: Do returns in that very step, without a call of
\* the policy's Next and without touching the timer, and once Do has returned
\* nothing is invoked, consulted or armed any more.
C3_PermanentStopsAtOnce ==
    /\ [](\A i \in 1..Len(results) :
            Permanent(results[i]) =>
                (/\ i = Len(results) /\ i = calls
                 /\ pc = "done"
                 /\ Len(consults) = i - 1
                 /\ (i = 1 => timer = NoTimer)))
    /\ [][/\ ((calls' # calls /\ Permanent(err')) =>
                (pc' = "done" /\ UNCHANGED <<consults, timer, tC, next, ok>>))
           /\ (pc = "done" =>
                (pc' = "done" /\ UNCHANGED <<calls, results, consults, timer, ret>>))]_vars

\* a wrapped permanent failure on the first invocation, under a policy that
\* would have allowed a retry
C3_Witness ==
    /\ pc = "done" /\ calls = 1
    /\ policy = ConstantBackoff(1)
    /\ results[1].chain = <<"wrap", "perm">>
    /\ consults = <<>> /\ timer = NoTimer

\* C4: when Do stops on a permanent failure, it returns the very value the
\* operation returned, every layer of its chain in place.
C4_PermanentReturnedIntact ==
    (pc = "done" /\ calls >= 1 /\ Permanent(Last(results)))
        => (ret = Last(results) /\ ret.chain = Last(results).chain)

\* the marker sits under a wrapper, and the wrapper is returned too
C4_Witness ==
    /\ pc = "done" /\ calls >= 1
    /\ Last(results).chain = <<"wrap", "perm">>
    /\ ret.chain = <<"wrap", "perm">>

\* C5: when the context is done while Do waits and the timer has not fired,
\* the step that ends the wait returns the failure of the most recent
\* invocation (no error of the context), invokes nothing and leaves the timer
\* stopped.
C5_CancelDuringWait ==
    [][(pc = "wait" /\ ctxDone /\ tC = 0 /\ pc' # "wait") =>
        (/\ pc' = "done"
         /\ ret' = Last(results) /\ Transient(ret')
         /\ calls' = calls
         /\ ~timer'.active /\ tC' = 0)]_vars

\* Do returned on cancellation before the backoff had elapsed
C5_Witness ==
    /\ pc = "done" /\ ctxDone
    /\ timer.created /\ ~timer.active /\ tC = 0 /\ timer.when > clock
    /\ Transient(ret) /\ ret = Last(results)

\* C6: leaving the deadline test, Do returns the last failure, with the timer
\* untouched and nothing invoked, exactly when the context has a deadline and
\* the current time plus the proposed backoff is later than it; otherwise it
\* goes on to arm the timer.
C6_DeadlineOverrun ==
    [][(pc = "deadline" /\ pc' # "deadline") =>
        IF hasDeadline /\ clock + next > deadline
        THEN /\ pc' = "done"
             /\ ret' = Last(results) /\ Transient(ret')
             /\ UNCHANGED <<timer, tC, calls>>
        ELSE pc' = "arm"]_vars

\* Do returned on a deadline overrun: the policy allowed the retry, the
\* context was never done, and the deadline had not even passed
C6_Witness ==
    /\ pc = "done" /\ hasDeadline /\ ~ctxDone /\ ok
    /\ clock <= deadline /\ clock + next > deadline
    /\ Transient(ret) /\ timer = NoTimer

\* C7: whatever the path by which Do returns, it returns the value of the
\* most recent invocation of the operation (nil when that one succeeded).
C7_ReturnsLastResult ==
    pc = "done" => (calls >= 1 /\ Len(results) = calls /\ ret = Last(results))

\* a return with a failure after a retry: the failure of the second
\* invocation, not of the first
C7_Witness ==
    /\ pc = "done" /\ calls = 2
    /\ Transient(ret) /\ ret = results[2] /\ ret # results[1]

\* the decision of the root's parent for the arguments of the call at hand
ParentOutcome == PolicyNext(Tail(policy), err, start, clock, retry, drawn)

\* C8: a call of WithMaxRetries(p, n).Next with attempt a returns; it vetoes
\* when a > n and returns p's decision when a <= n; with n = 0 it vetoes
\* whatever the parent, a nil parent included.
C8_MaxRetriesNext ==
    (pc # "next" /\ Head(policy).kind = "maxRetries") =>
        LET n == Head(policy).limit IN
        /\ fault \in {"none", ParentOutcome.fault}
        /\ retry > n => (pc = "returned" /\ ~ok)
        /\ (retry <= n /\ ParentOutcome.fault = "none") =>
                (pc = "returned" /\ next = ParentOutcome.d /\ ok = ParentOutcome.ok)

\* C9: whenever the parent p of WithMaxElapsedDuration(p, L) decides (d, ok),
\* the decorator returns allow=false if now + d > start + L and (d, ok) as it
\* is otherwise, so a veto of p is never turned into allow=true.
C9_MaxElapsedNext ==
    (pc # "next" /\ Head(policy).kind = "maxElapsed" /\ ParentOutcome.fault = "none") =>
        LET L == Head(policy).limit
            d == ParentOutcome.d
        IN /\ pc = "returned"
           /\ IF clock + d > start + L THEN ~ok
              ELSE next = d /\ ok = ParentOutcome.ok
           /\ ~ParentOutcome.ok => ~ok

\* the parent vetoed and the elapsed limit was not reached
C9_Witness ==
    /\ pc = "returned" /\ Head(policy).kind = "maxElapsed"
    /\ ParentOutcome.fault = "none" /\ ~ParentOutcome.ok
    /\ clock + ParentOutcome.d <= start + Head(policy).limit
    /\ ~ok

\* C10: the policy has been consulted once for every transient failure (the
\* one Do is about to consult for excepted) and for nothing else; the k-th
\* consultation got attempt k and the one start of the call, and the now
\* values never decrease and are never before start; start does not change
\* once it is captured.
C10_Consultations ==
    /\ [](/\ Len(consults) =
                Cardinality({i \in 1..Len(results) : Transient(results[i])})
                - (IF pc = "consult" THEN 1 ELSE 0)
          /\ \A k \in 1..Len(consults) :
                /\ consults[k].attempt = k
                /\ consults[k].start = start
                /\ consults[k].now >= start
                /\ k > 1 => consults[k - 1].now <= consults[k].now)
    /\ [][pc # "begin" => start' = start]_vars

\* two consultations at different times, after a start later than 0
C10_Witness ==
    /\ Len(consults) = 2 /\ start > 0
    /\ consults[1].now < consults[2].now
    /\ consults[2].attempt = 2

\* C11: ExponentialBackoff(min, max, f).Next allows every attempt a >= 1 with
\* the backoff min * f^(a-1) (truncated to a whole duration) capped at max: it
\* is min at a = 1, never negative and never above max, however large a is.
C11_ExponentialNext ==
    (pc # "next" /\ Head(policy).kind = "exponentialBackoff") =>
        LET p == Head(policy)
            grown == TruncDiv(p.min * p.factor[1] ^ (retry - 1), p.factor[2] ^ (retry - 1))
        IN /\ pc = "returned" /\ ok
           /\ next = (IF grown > p.max THEN p.max ELSE grown)
           /\ 0 <= next /\ next <= p.max
           /\ (retry = 1 => next = p.min)

\* the value the root, a withRandomJitter layer, drew in the call at hand
OwnDraw == drawn[Len(drawn)]

LastOperand == IF Len(results) = 1 THEN err ELSE results[Len(results) - 1]

\* C13: NewPermanentError(nil) is nil; NewPermanentError of a failure is
\* detected as permanent, and marking it again returns the same value; a
\* failure that already holds a marker, under any wrappers, is returned
\* unchanged; wrapping neither hides nor adds a marker, and a failure is
\* detected as permanent exactly when a marker is in its chain.
C13_MarkingIdempotent ==
    /\ pc = "marked" =>
          /\ LastOperand = NilErr => ret = NilErr
          /\ LastOperand # NilErr => isPermErr(ret)
          /\ Permanent(LastOperand) => ret = LastOperand
          /\ NewPermanentError(ret) = ret
    /\ pc = "wrapped" => (isPermErr(ret) <=> isPermErr(LastOperand))
    /\ pc = "perm" =>
          (isPermErr(err) <=> (err # NilErr /\ "perm" \in {err.chain[i] : i \in 1..Len(err.chain)}))
    /\ (pc \in {"marked", "wrapped"} /\ "perm" \notin {Operand.chain[i] : i \in 1..Len(Operand.chain)}) =>
          ~isPermErr(ret)

\* a marked failure was wrapped twice and marked again: it came back unchanged
C13_Witness ==
    /\ pc = "marked" /\ Len(results) = MaxCalls
    /\ Len(LastOperand.chain) >= 2
    /\ LastOperand.chain[1] = "wrap" /\ LastOperand.chain[2] = "wrap"
    /\ Permanent(LastOperand) /\ ret = LastOperand

\* C14: rearming the timer never blocks: whenever Do is about to arm the timer
\* it can do so, and does; a wait that ends by the timer's fire leads to the
\* next invocation of fn, which takes place, and a further transient failure
\* that the policy allows to be retried leads to the next wait.
C14_RearmNeverBlocks ==
    /\ [](pc = "arm" => ENABLED ArmTimer)
    /\ (pc = "arm") ~> (pc = "wait")
    /\ [][(pc = "wait" /\ tC' < tC) => (pc' = "call" /\ retry' = retry + 1)]_vars
    /\ \A k \in 1..(MaxCalls - 1) :
          (pc = "call" /\ calls = k) ~> (calls = k + 1)
    /\ \A k \in 2..MaxCalls :
          (pc = "arm" /\ calls = k) ~> (pc = "wait" /\ calls = k /\ timer.created)

\* the timer was rearmed for the last wait after two waits ended by its fire
C14_Witness ==
    /\ pc = "wait" /\ calls = MaxCalls /\ retry = MaxCalls
    /\ timer.active /\ tC = 0 /\ ~ctxDone

\* C15: a wait ends by a fire only when the timer armed for that wait, with
\* the backoff the policy computed for the attempt at hand, has fired and its
\* time has come; while Do waits the channel holds a fire exactly when that
\* timer has fired; when the timer is armed or rearmed its channel is empty
\* and stays empty until the new arming fires; every fire comes from an armed
\* timer that is due and is received once.
C15_NoStaleFire ==
    /\ [](pc = "wait" => (timer.created /\ tC \in {0, 1} /\ (tC = 1 <=> ~timer.active)))
    /\ [](pc = "arm" => tC = 0)
    /\ [][(pc = "wait" /\ pc' = "call") =>
            (/\ tC = 1 /\ tC' = 0 /\ ~timer.active
             /\ clock >= timer.when
             /\ timer.when >= Last(consults).now + next
             /\ Last(consults).attempt = retry /\ retry' = retry + 1)]_vars
    /\ [][(pc = "arm" /\ pc' = "wait") =>
            (tC' = 0 /\ timer'.active /\ timer'.when = clock + next)]_vars
    /\ [][tC' > tC => (timer.active /\ ~timer'.active /\ clock >= timer.when /\ tC' = 1)]_vars

\* the second wait, of one tick, was ended by the fire of the rearmed timer
C15_Witness ==
    /\ pc = "call" /\ retry = 3 /\ calls = 2
    /\ next = 1 /\ timer.created /\ ~timer.active /\ tC = 0
    /\ timer.when = MaxTime /\ clock = MaxTime

\* C16: once Do has returned its timer is not armed and nothing happens to the
\* timer or its channel any more; a return from the wait (cancellation) leaves
\* the timer stopped, and at a return from anywhere else the timer is as it
\* was: never created, or fired at its time with the fire received.
C16_TimerNotArmedAfterReturn ==
    /\ [](pc = "done" => ~timer.active)
    /\ [][pc = "done" => (timer' = timer /\ tC' = tC)]_vars
    /\ [][(pc # "done" /\ pc' = "done") =>
            IF pc = "wait" THEN ctxDone /\ ~timer'.active /\ tC' = tC
            ELSE /\ timer' = timer /\ tC' = tC
                 /\ \/ timer = NoTimer
                    \/ timer.created /\ ~timer.active /\ tC = 0 /\ clock >= timer.when]_vars

\* Do returned on cancellation and the time the timer was armed for has passed
C16_Witness ==
    /\ pc = "done" /\ ctxDone /\ Len(consults) = calls
    /\ timer.created /\ ~timer.active /\ tC = 0
    /\ timer.when > Last(consults).now /\ clock > timer.when

\* a call, or the reseeding, is between Lock and Unlock of the source's mutex
InDraw(p) == procs[p].pc \in {"read", "write", "unlock"}
InSeed == seeding \in {"locked", "seeded"}

\* the decision a call would get were it the only one: Next of the policy, for
\* its own start, the present time, as attempt the number of its own
\* invocations of fn, with the value the source holds next
AloneOutcome(p) ==
    PolicyNext(policy, err, procs[p].start, clock, procs[p].calls, <<RandAt(src)>>)

\* C17: with several Do calls sharing one policy, every call consults the
\* policy with its own attempt number, the count of its own invocations of fn
\* (1, 2, 3, ...), and with its own start time, which is the time it began and
\* never changes; every decision is the one the call gets when it runs alone; a
\* step of one call leaves the locals of the others alone; the policy is never
\* written; the source's mutex has at most one holder, a call drawing or the
\* reseeding, and every state of the source is handed out exactly once.
C17_SharedPolicy ==
    /\ [](\A p \in Procs :
            /\ procs[p].pc = "begin" => (procs[p].retry = 0 /\ procs[p].calls = 0)
            /\ procs[p].pc = "call" => procs[p].retry = procs[p].calls + 1
            /\ (procs[p].pc \in {"consult", "lock"} \/ InDraw(p)) =>
                    (procs[p].retry = procs[p].calls /\ procs[p].calls >= 1))
    /\ [][\A p \in Procs :
            /\ procs[p].pc # "begin" => procs'[p].start = procs[p].start
            /\ (procs[p].pc = "begin" /\ procs'[p].pc # "begin") => procs'[p].start = clock
            /\ (procs[p].pc = "consult" /\ procs'[p].pc # "consult") =>
                    LET alone == AloneOutcome(p) IN
                    /\ fault' = alone.fault
                    /\ procs'[p].pc = "fatal" <=> alone.fault # "none"
                    /\ procs'[p].pc = "done" <=> (alone.fault = "none" /\ ~alone.ok)
                    /\ procs'[p].pc = "lock" => alone.draws = 1
                    /\ procs'[p].pc = "call" =>
                            (alone.draws = 0 /\ procs'[p].retry = procs[p].retry + 1)
            /\ (procs[p].pc = "unlock" /\ procs'[p].pc # "unlock") =>
                    (procs'[p].pc = "call" /\ procs'[p].retry = procs[p].retry + 1)]_vars
    /\ [][\A p \in Procs : procs'[p] # procs[p] =>
                \A q \in Procs \ {p} : procs'[q] = procs[q]]_vars
    /\ [][policy' = policy /\ err' = err]_vars
    /\ [](/\ Cardinality({p \in Procs : InDraw(p)}) + (IF InSeed THEN 1 ELSE 0) <= 1
          /\ \A p \in Procs : mu = p <=> InDraw(p)
          /\ mu = Seeder <=> InSeed)
    /\ [](Len(drawn) = src /\ \A i \in 1..Len(drawn) : drawn[i] = i - 1)
    /\ [][\A p \in Procs : (procs[p].pc = "write" /\ procs'[p].pc # "write") =>
            (procs[p].n = src /\ src' = src + 1)]_vars

\* one call holds the source for its first draw while another, begun at
\* another time, waits for the source with its second attempt
C17_Witness ==
    /\ pc = "shared" /\ fault = "none"
    /\ \E p, q \in Procs :
          /\ procs[p].pc = "lock" /\ procs[p].retry = 2 /\ procs[p].calls = 2
          /\ procs[q].pc = "write" /\ procs[q].retry = 1 /\ mu = q
          /\ procs[p].start # procs[q].start
          /\ src >= 1

\* C18: a call of WithRandomJitter(parent, j).Next whose parent vetoes returns
\* allow=false with backoff 0 and leaves the random source as the parent left
\* it; a call whose parent allows returns allow=true and draws exactly one
\* value more than the parent did.
C18_JitterDraws ==
    (/\ pc # "next" /\ Head(policy).kind = "withRandomJitter"
     /\ ParentOutcome.fault = "none") =>
        /\ pc = "returned"
        /\ ok = ParentOutcome.ok
        /\ src = Len(drawn)
        /\ IF ParentOutcome.ok THEN src = ParentOutcome.draws + 1
           ELSE src = ParentOutcome.draws /\ next = 0

\* the parent vetoed and nothing was drawn
C18_Witness ==
    /\ pc = "returned" /\ Head(policy).kind = "withRandomJitter"
    /\ Len(policy) = 3 /\ ParentOutcome.fault = "none"
    /\ ~ParentOutcome.ok /\ ~ok /\ src = 0 /\ drawn = <<>>

\* the decision of the layers from the i-th downwards, for the arguments of
\* the call at hand
SubOutcome(i) == PolicyNext(SubSeq(policy, i, Len(policy)), err, start, clock, retry, drawn)

\* the i-th layer's own veto condition holds, or its parent vetoes
Vetoes(i) ==
    LET h == policy[i]
        parent == SubOutcome(i + 1)
    IN \/ h.kind = "maxRetries" /\ retry > h.limit
       \/ /\ h.kind \in {"maxElapsed", "withRandomJitter"}
          /\ parent.fault = "none"
          /\ \/ ~parent.ok
             \/ h.kind = "maxElapsed" /\ clock + parent.d > start + h.limit

\* C19: the root's Next returns for every attempt >= 1, and it returns
\* allow=false whenever some decorator between the root and the leaf has its
\* own veto condition true or gets allow=false from its parent.
C19_VetoNeverOverturned ==
    pc # "next" =>
        /\ pc = "returned"
        /\ (\E i \in 1..Len(policy) : Vetoes(i)) => ~ok

\* C20: Do invokes fn at least once, even when the context is cancelled
\* before the first invocation; and a backoff wait that began with the
\* context already cancelled is never left for another invocation of fn: Do
\* returns from it with the last failure.
C20_CancelObservedAtWait ==
    /\ [](pc = "done" => calls >= 1)
    /\ [][(pc = "wait" /\ doneAtWait /\ pc' # "wait") =>
            (pc' = "done" /\ ret' = Last(results) /\ calls' = calls)]_vars

====
